---- MODULE Spec2Model ----
(***************************************************************************)
(* Model of the aiwork HTTP worker (src/src/index.ts and its later         *)
(* revision in src/unnamed/part_000, lines 109-451).                       *)
(*                                                                         *)
(* One request is followed from its arrival through the middleware chain   *)
(* (cors, basicAuth), the router, the route handler, the provider call and *)
(* - for /explain/open - the streaming callback.  The worker keeps no      *)
(* state between requests; the model serves MaxRequests requests one after *)
(* the other so that properties about "an earlier request" can be stated.  *)
(***************************************************************************)
EXTENDS Integers, Sequences, FiniteSets, TLC

\* ---------------------------------------------------------------- bounds
MaxRequests == 2
MaxDeltas == 2
MaxDeltaLen == 2
MaxSentences == 2
MaxPromptLen == 3
MaxArgs == 3

\* ------------------------------------------------------- program constants
\* c.env.AUTH_USERNAME / c.env.AUTH_PASSWORD: the configured credentials
AUTH_USERNAME == "user"
AUTH_PASSWORD == "pass"

\* /[一-龯]/
KANJI_LO == 19968
KANJI_HI == 40879

\* ------------------------------------------------------------ input sets
Methods == {"GET", "HEAD", "POST", "OPTIONS"}
Paths == {"/ask/open", "/ask/cf", "/explain/open", "/sound/open", "/ask", "/other"}

\* The Authorization header of a request: absent, not a well-formed Basic
\* header, or Basic credentials that decode to username:password.
AuthHeaders ==
    {[kind |-> "absent", username |-> "", password |-> ""],
     [kind |-> "malformed", username |-> "", password |-> ""]}
    \cup [kind : {"basic"}, username : {"user", "eve"}, password : {"pass", "bad"}]

\* A query parameter: absent, or present with a string value (a sequence of
\* code points, possibly empty).
Absent == [present |-> FALSE, value |-> <<>>]
Str(s) == [present |-> TRUE, value |-> s]

\* 'a' and U+732B (a kanji)
QueryPrompts == {Absent, Str(<<>>), Str(<<97>>), Str(<<29483>>)}

\* type: absent, "", "vocabulary", "grammar", anything else.  The strings
\* are named by tags; "" is the empty sequence.
QueryTypes == {Absent, Str(<<>>), Str(<<"vocabulary">>), Str(<<"grammar">>), Str(<<"word">>)}

\* voice: absent, "" or a voice name; model: absent or a model name
QueryVoices == {Absent, Str(<<>>), Str(<<"alloy">>)}
QueryModels == {Absent, Str(<<"tts-1-hd">>)}

Requests ==
    [method : Methods, path : Paths, auth : AuthHeaders,
     prompt : QueryPrompts, type : QueryTypes,
     voice : QueryVoices, model : QueryModels]

NoRequest ==
    [method |-> "NONE", path |-> "NONE", auth |-> [kind |-> "absent", username |-> "", password |-> ""],
     prompt |-> Absent, type |-> Absent, voice |-> Absent, model |-> Absent]

\* ---------------------------------------------------------------- state
VARIABLES
    pc,         \* where the current request is in the worker
    req,        \* the current request
    nreq,       \* number of requests received so far
    status,     \* response status (0: no response yet)
    headers,    \* response headers the claims are about
    body,       \* response body
    calls,      \* provider calls made for the current request, in order
    result,     \* what the provider returned for the pending / last call
    upstream,   \* /explain/open: deltas the provider has not delivered yet
    delivered,  \* /explain/open: texts of the deltas consumed, concatenated
    batch,      \* /explain/open: the Promise.all tasks of the current delta
    written,    \* /explain/open: chunks accepted by the response stream
    closed,     \* /explain/open: number of stream.close() calls by the callback
    disconnected, \* /explain/open: the client has gone away
    tplIn,      \* template builder: input
    tplOut,     \* template builder: output
    cliScript,  \* CLI: which script runs (ask, explain, sound)
    cliArgs,    \* CLI: process.argv.slice(2)
    cliEnv,     \* CLI: process.env
    cliFile,    \* CLI: the .dev.vars file
    cliPc,      \* CLI: where the script is
    cliConf,    \* CLI: USERNAME, PASSWORD, hostname
    cliOpts,    \* CLI: what argument parsing produced
    cliStderr,  \* CLI: messages printed to standard error
    cliExit,    \* CLI: exit status (-1: still running)
    cliRequests, \* CLI: outbound requests issued
    cliDir,     \* CLI: the output directory has been created
    cliOutcome  \* CLI: how the request ended

vars == <<pc, req, nreq, status, headers, body, calls, result,
          upstream, delivered, batch, written, closed, disconnected,
          tplIn, tplOut,
          cliScript, cliArgs, cliEnv, cliFile, cliPc, cliConf, cliOpts,
          cliStderr, cliExit, cliRequests, cliDir, cliOutcome>>

respVars == <<status, headers, body>>
streamVars == <<upstream, delivered, batch, written, closed, disconnected>>
tplVars == <<tplIn, tplOut>>
cliVars == <<cliScript, cliArgs, cliEnv, cliFile, cliPc, cliConf, cliOpts,
             cliStderr, cliExit, cliRequests, cliDir, cliOutcome>>
serverVars == <<pc, req, nreq, calls, result, respVars, streamVars, tplVars>>

\* ------------------------------------------------------- response bodies
NoBody == [shape |-> "none", items |-> <<>>]
TextBody(t) == [shape |-> "text", items |-> <<t>>]
ArrayBody(xs) == [shape |-> "array", items |-> xs]
ObjectBody(xs) == [shape |-> "object", items |-> xs]
StreamBody == [shape |-> "stream", items |-> <<>>]
AudioBody == [shape |-> "audio", items |-> <<>>]

NoResult == [kind |-> "none", items |-> <<>>]

\* ------------------------------------------------------------ helpers
RECURSIVE Concat(_)
Concat(ss) == IF ss = <<>> THEN <<>> ELSE Head(ss) \o Concat(Tail(ss))

SeqsUpTo(S, n) == UNION {[1..k -> S] : k \in 0..n}

\* a check for undefined only: '' passes
Falsy_undefinedOnly(p) == ~p.present

\* `!x` for a query parameter: undefined and '' are falsy
Falsy(p) == ~p.present \/ p.value = <<>>

\* `x ?? d`: only undefined gives the default
OrDefault_nullish(p, d) == IF ~p.present THEN d ELSE p.value

\* `x || d`
OrDefault(p, d) == IF Falsy(p) THEN d ELSE p.value

\* ------------------------------------------------------------ middleware
\* basicAuth's parsing of the Authorization header: the decoded user, or
\* nothing when the header is absent or not a well-formed Basic header.
auth(r) ==
    IF r.auth.kind = "basic"
    THEN [found |-> TRUE, username |-> r.auth.username, password |-> r.auth.password]
    ELSE [found |-> FALSE, username |-> "", password |-> ""]

\* verifyUser that forgets the password
verifyUser_userOnly(username, password) ==
    username = AUTH_USERNAME

\* verifyUser with || in place of &&
verifyUser_or(username, password) ==
    username = AUTH_USERNAME \/ password = AUTH_PASSWORD

\* verifyUser: (username, password, c) =>
\*   username === c.env.AUTH_USERNAME && password === c.env.AUTH_PASSWORD
verifyUser(username, password) ==
    username = AUTH_USERNAME /\ password = AUTH_PASSWORD

\* The router matches on the dispatch method: a HEAD request is dispatched
\* as GET and answered with the GET response without its body.
DispatchMethod(m) == IF m = "HEAD" THEN "GET" ELSE m

Routes == {"/ask/open", "/explain/open", "/sound/open", "/ask/cf"}

\* a router that ignores the method
Matches_anyMethod(r, path) == r.path = path

Matches(r, path) == DispatchMethod(r.method) = "GET" /\ r.path = path

\* The response leaves the worker: status, headers and body (no body for HEAD).
Respond(st, hd, b) ==
    /\ status' = st
    /\ headers' = hd
    /\ body' = IF req.method = "HEAD" THEN NoBody ELSE b
    /\ pc' = "done"

\* throw new HTTPException(st, { message })
Throw(st, message) == Respond(st, {}, TextBody(message))

\* An error that is not an HTTPException reaches the default error handler.
InternalError == Respond(500, {}, TextBody("Internal Server Error"))

\* A request arrives at the worker.
Receive ==
    /\ pc = "idle"
    /\ nreq < MaxRequests
    /\ \E r \in Requests : req' = r
    /\ nreq' = nreq + 1
    /\ pc' = "cors"
    /\ UNCHANGED <<calls, result>>
    /\ UNCHANGED respVars
    /\ UNCHANGED streamVars
    /\ UNCHANGED tplVars
    /\ UNCHANGED cliVars

\* The response has been sent; the request context is discarded and nothing
\* of the request is kept for the next one.
Discard ==
    /\ pc = "done"
    /\ pc' = "idle"
    /\ req' = NoRequest
    /\ status' = 0
    /\ headers' = {}
    /\ body' = NoBody
    /\ calls' = <<>>
    /\ result' = NoResult
    /\ upstream' = <<>>
    /\ delivered' = <<>>
    /\ batch' = <<>>
    /\ written' = <<>>
    /\ closed' = 0
    /\ disconnected' = FALSE
    /\ UNCHANGED nreq
    /\ UNCHANGED tplVars
    /\ UNCHANGED cliVars

\* app.use(cors({origin: '*', allowHeaders, allowMethods: ['GET','OPTIONS']}))
\* A preflight (OPTIONS) request is answered 204 by the middleware itself;
\* every other request goes on to the next middleware.
Cors ==
    /\ pc = "cors"
    /\ IF req.method = "OPTIONS"
       THEN /\ status' = 204
            /\ headers' = {"Access-Control-Allow-Origin", "Access-Control-Allow-Methods",
                           "Access-Control-Allow-Headers"}
            /\ body' = NoBody
            /\ pc' = "done"
       ELSE /\ pc' = "auth"
            /\ UNCHANGED respVars
    /\ UNCHANGED <<req, nreq, calls, result>>
    /\ UNCHANGED streamVars
    /\ UNCHANGED tplVars
    /\ UNCHANGED cliVars

\* app.use(basicAuth({verifyUser}))
BasicAuth ==
    /\ pc = "auth"
    /\ LET requestUser == auth(req) IN
       IF requestUser.found /\ verifyUser(requestUser.username, requestUser.password)
       THEN /\ pc' = "route"
            /\ UNCHANGED respVars
       ELSE Respond(401, {"WWW-Authenticate"}, TextBody("Unauthorized"))
    /\ UNCHANGED <<req, nreq, calls, result>>
    /\ UNCHANGED streamVars
    /\ UNCHANGED tplVars
    /\ UNCHANGED cliVars

\* No route matches the dispatch method and path.
NotFound ==
    /\ pc = "route"
    /\ ~ \E p \in Routes : Matches(req, p)
    /\ Respond(404, {}, TextBody("404 Not Found"))
    /\ UNCHANGED <<req, nreq, calls, result>>
    /\ UNCHANGED streamVars
    /\ UNCHANGED tplVars
    /\ UNCHANGED cliVars

\* ------------------------------------------------------ prompt templates
\* A JavaScript string holds UTF-16 code units: a code point above U+FFFF
\* is a surrogate pair.
RECURSIVE ToUTF16(_)
ToUTF16(cps) ==
    IF cps = <<>> THEN <<>>
    ELSE LET cp == Head(cps) IN
         (IF cp < 65536 THEN <<cp>>
          ELSE <<55296 + ((cp - 65536) \div 1024), 56320 + ((cp - 65536) % 1024)>>)
         \o ToUTF16(Tail(cps))

\* the range with its lower end excluded
containsKanji_exclusive(prompt) ==
    LET units == ToUTF16(prompt) IN
    \E i \in 1..Len(units) : units[i] > KANJI_LO /\ units[i] <= KANJI_HI

\* /[\u4e00-\u9faf]/.test(prompt): some code unit lies in the range
containsKanji(prompt) ==
    LET units == ToUTF16(prompt) IN
    \E i \in 1..Len(units) : units[i] >= KANJI_LO /\ units[i] <= KANJI_HI

\* The template as the sequence of its sections.
generateWordExplanationPrompt(prompt) ==
    LET k == containsKanji(prompt)
        p1 == <<"Header">>
        p2 == IF k THEN p1 \o <<"Kanji Analysis">> ELSE p1
        p3 == p2 \o <<"Usage Examples">>
        p4 == IF k THEN p3 \o <<"Common Compounds">> ELSE p3
        p5 == p4 \o <<"Similar Words Comparison", "Usage Summary">>
        p6 == IF k THEN p5 \o <<"Mnemonic">> ELSE p5
    IN p6

EXPLAIN_GRAMMAR == <<"EXPLAIN_GRAMMAR">>
ASK_PROMPT == <<"ASK_PROMPT">>
SPEECH_INSTRUCTIONS == <<"SPEECH_INSTRUCTIONS">>

\* ------------------------------------------------------ provider replies
SchemaKeys == {"jp", "jp_reading", "en"}

\* A sentence object as the provider sends it: well-formed, lacking
\* jp_reading, or carrying an extra key.  The handlers never look at the
\* texts, so a sentence is identified by its position in the reply.
FieldSets == {{"jp", "jp_reading", "en"}, {"jp", "en"}, {"jp", "jp_reading", "en", "expl"}}

RawItems ==
    {[i \in 1..Len(f) |-> [id |-> i, fields |-> f[i]]] : f \in SeqsUpTo(FieldSets, MaxSentences)}

Failure == [kind |-> "error", items |-> <<>>]

\* replies to openai.beta.chat.completions.parse
ParseReplies ==
    {Failure, [kind |-> "nochoices", items |-> <<>>], [kind |-> "refusal", items |-> <<>>]}
    \cup [kind : {"content"}, items : RawItems]

\* replies to c.env.AI.run
RunReplies ==
    {Failure} \cup [kind : {"result"}, items : RawItems]

\* A streamed message: choices may be empty (-2), delta.content may be
\* missing (-1), or the content is a text of n >= 0 characters.  The callback
\* never looks at a character, so the k-th character of the i-th message is
\* identified by <<i, k>>.
Message(i, n) ==
    IF n = -2 THEN [hasChoice |-> FALSE, content |-> Absent]
    ELSE IF n = -1 THEN [hasChoice |-> TRUE, content |-> Absent]
    ELSE [hasChoice |-> TRUE, content |-> Str([k \in 1..n |-> <<i, k>>])]

Streams ==
    {[i \in 1..Len(sh) |-> Message(i, sh[i])] : sh \in SeqsUpTo(-2..MaxDeltaLen, MaxDeltas)}

\* replies to openai.chat.completions.create({stream: true})
CreateReplies ==
    {Failure} \cup [kind : {"stream"}, items : Streams]

\* replies to openai.audio.speech.create
SpeechReplies == {Failure, [kind |-> "audio", items |-> <<>>]}

\* the schema without jp_reading: {jp, en, expl?}
dictSchema_noReading(items) ==
    [ok |-> \A i \in 1..Len(items) : {"jp", "en"} \subseteq items[i].fields,
     sentences |-> [i \in 1..Len(items) |->
                      [id |-> items[i].id, fields |-> items[i].fields \cap {"jp", "en", "expl"}]]]

\* dictSchema: every item must have jp, jp_reading and en; other keys are
\* stripped from the parsed value.
dictSchema(items) ==
    [ok |-> \A i \in 1..Len(items) : SchemaKeys \subseteq items[i].fields,
     sentences |-> [i \in 1..Len(items) |->
                      [id |-> items[i].id, fields |-> items[i].fields \cap SchemaKeys]]]

\* What openai.beta.chat.completions.parse hands to the handler.
parse(reply) ==
    IF reply.kind = "error" \/ (reply.kind = "content" /\ ~dictSchema(reply.items).ok)
    THEN [threw |-> TRUE, choices |-> 0, hasParsed |-> FALSE, sentences |-> <<>>]
    ELSE IF reply.kind = "nochoices"
    THEN [threw |-> FALSE, choices |-> 0, hasParsed |-> FALSE, sentences |-> <<>>]
    ELSE IF reply.kind = "refusal"
    THEN [threw |-> FALSE, choices |-> 1, hasParsed |-> FALSE, sentences |-> <<>>]
    ELSE [threw |-> FALSE, choices |-> 1, hasParsed |-> TRUE,
          sentences |-> dictSchema(reply.items).sentences]

\* message.choices[0]?.delta.content ?? ''
DeltaText(message) ==
    IF message.hasChoice /\ message.content.present THEN message.content.value ELSE <<>>

HostedCall(op, system, user, model, voice) ==
    [backend |-> "hosted", op |-> op, system |-> system, user |-> user,
     model |-> model, voice |-> voice]

BindingCall(system, user) ==
    [backend |-> "binding", op |-> "AI.run", system |-> system, user |-> user,
     model |-> <<"@cf/meta/llama-3.1-8b-instruct">>, voice |-> <<>>]

\* ----------------------------------------------------------- /ask/open
AskOpen ==
    /\ pc = "route"
    /\ Matches(req, "/ask/open")
    /\ IF Falsy(req.prompt)
       THEN /\ Throw(400, "Missing prompt")
            /\ UNCHANGED calls
       ELSE /\ calls' = Append(calls, HostedCall("chat.completions.parse", ASK_PROMPT,
                                  req.prompt.value, <<"gpt-4o-mini-2024-07-18">>, <<>>))
            /\ pc' = "await_ask_open"
            /\ UNCHANGED respVars
    /\ UNCHANGED <<req, nreq, result>>
    /\ UNCHANGED streamVars
    /\ UNCHANGED tplVars
    /\ UNCHANGED cliVars

AskOpenReturn ==
    /\ pc = "await_ask_open"
    /\ \E reply \in ParseReplies :
         /\ result' = reply
         /\ LET resp == parse(reply) IN
            IF resp.threw
            THEN InternalError
            ELSE IF resp.choices > 0 /\ resp.hasParsed /\ Len(resp.sentences) > 0
            THEN Respond(200, {"Content-Type"}, ArrayBody(resp.sentences))
            ELSE Throw(500, "Failed to generate sentences")
    /\ UNCHANGED <<req, nreq, calls>>
    /\ UNCHANGED streamVars
    /\ UNCHANGED tplVars
    /\ UNCHANGED cliVars

\* ------------------------------------------------------------- /ask/cf
AskCf ==
    /\ pc = "route"
    /\ Matches(req, "/ask/cf")
    /\ IF Falsy(req.prompt)
       THEN /\ Throw(400, "Missing prompt")
            /\ UNCHANGED calls
       ELSE /\ calls' = Append(calls, BindingCall(ASK_PROMPT, req.prompt.value))
            /\ pc' = "await_ask_cf"
            /\ UNCHANGED respVars
    /\ UNCHANGED <<req, nreq, result>>
    /\ UNCHANGED streamVars
    /\ UNCHANGED tplVars
    /\ UNCHANGED cliVars

\* return c.json(resp): whatever the binding returned, as it is
AskCfReturn ==
    /\ pc = "await_ask_cf"
    /\ \E reply \in RunReplies :
         /\ result' = reply
         /\ IF reply.kind = "error"
            THEN InternalError
            ELSE Respond(200, {"Content-Type"}, ObjectBody(reply.items))
    /\ UNCHANGED <<req, nreq, calls>>
    /\ UNCHANGED streamVars
    /\ UNCHANGED tplVars
    /\ UNCHANGED cliVars

\* ---------------------------------------------------------- /sound/open
SoundOpen ==
    /\ pc = "route"
    /\ Matches(req, "/sound/open")
    /\ LET voice == OrDefault(req.voice, <<"nova">>) IN
       IF Falsy(req.prompt)
       THEN /\ Throw(400, "Missing prompt")
            /\ UNCHANGED calls
       ELSE /\ calls' = Append(calls, HostedCall("audio.speech.create", SPEECH_INSTRUCTIONS,
                                  req.prompt.value, <<"gpt-4o-mini-tts">>, voice))
            /\ pc' = "await_sound"
            /\ UNCHANGED respVars
    /\ UNCHANGED <<req, nreq, result>>
    /\ UNCHANGED streamVars
    /\ UNCHANGED tplVars
    /\ UNCHANGED cliVars

\* try { ... return c.body(audioData) } catch { throw new HTTPException(500) }
SoundOpenReturn ==
    /\ pc = "await_sound"
    /\ \E reply \in SpeechReplies :
         /\ result' = reply
         /\ IF reply.kind = "error"
            THEN Throw(500, "Failed to generate speech")
            ELSE Respond(200, {"Content-Type", "Content-Length", "Cache-Control"}, AudioBody)
    /\ UNCHANGED <<req, nreq, calls>>
    /\ UNCHANGED streamVars
    /\ UNCHANGED tplVars
    /\ UNCHANGED cliVars

\* -------------------------------------------------------- /explain/open
ExplainOpen ==
    /\ pc = "route"
    /\ Matches(req, "/explain/open")
    /\ LET type == OrDefault(req.type, <<"vocabulary">>)
           promptTemplate == IF type = <<"vocabulary">>
                             THEN generateWordExplanationPrompt(req.prompt.value)
                             ELSE EXPLAIN_GRAMMAR
       IN
       IF Falsy(req.prompt)
       THEN /\ Throw(400, "Missing prompt")
            /\ UNCHANGED calls
       ELSE /\ calls' = Append(calls, HostedCall("chat.completions.create", promptTemplate,
                                  req.prompt.value, <<"gpt-4o-mini-2024-07-18">>, <<>>))
            /\ pc' = "await_explain"
            /\ UNCHANGED respVars
    /\ UNCHANGED <<req, nreq, result>>
    /\ UNCHANGED streamVars
    /\ UNCHANGED tplVars
    /\ UNCHANGED cliVars

\* The create call fails, or returns the stream: the response (200, chunked)
\* is returned at once and the streamText callback starts.
ExplainOpenReturn ==
    /\ pc = "await_explain"
    /\ \E reply \in CreateReplies :
         /\ result' = reply
         /\ IF reply.kind = "error"
            THEN /\ InternalError
                 /\ UNCHANGED upstream
            ELSE /\ status' = 200
                 /\ headers' = {"Content-Type", "Transfer-Encoding", "Cache-Control", "Connection"}
                 /\ body' = IF req.method = "HEAD" THEN NoBody ELSE StreamBody
                 /\ upstream' = reply.items
                 /\ pc' = "streaming"
    /\ UNCHANGED <<req, nreq, calls, delivered, batch, written, closed, disconnected>>
    /\ UNCHANGED tplVars
    /\ UNCHANGED cliVars

\* ------------------------------------------- the streamText callback
\* Array.from(text): one element per Unicode character
ArrayFrom(text) == [i \in 1..Len(text) |-> <<text[i]>>]

\* a Promise.all that is not awaited
Settled_notAwaited(b) == TRUE

Settled(b) == \A i \in 1..Len(b) : b[i].st = "done"

\* Tasks whose stream.write has been called and has not resolved yet.
Writing(b) == {i \in 1..Len(b) : b[i].st = "write"}
Sleeping(b) == {i \in 1..Len(b) : b[i].st = "sleep"}

\* a writer that takes the most recent pending write first
WriterHead_last(b) == CHOOSE i \in Writing(b) : \A j \in Writing(b) : i >= j

\* The stream's writer takes the pending writes in the order of the calls.
WriterHead(b) == CHOOSE i \in Writing(b) : \A j \in Writing(b) : i <= j

\* for await (const message of streamResp): the next delta arrives once the
\* Promise.all of the previous one has resolved.  Array.from(text).map(...)
\* runs every callback up to its first await, so stream.write(s) is called
\* for every character of the delta, in order, before anything is awaited.
StreamNext ==
    /\ pc = "streaming"
    /\ Settled(batch)
    /\ upstream # <<>>
    /\ LET text == DeltaText(Head(upstream))
           chunks == ArrayFrom(text)
       IN /\ batch' = [i \in 1..Len(chunks) |-> [s |-> chunks[i], st |-> "write"]]
          /\ delivered' = delivered \o text
    /\ upstream' = Tail(upstream)
    /\ UNCHANGED <<pc, req, nreq, calls, result, written, closed, disconnected>>
    /\ UNCHANGED respVars
    /\ UNCHANGED tplVars
    /\ UNCHANGED cliVars

\* await stream.write(s) resolves: the chunk is in the response stream and
\* the task goes on to stream.sleep(20).  Once the client has gone the write
\* fails; stream.write swallows the error and resolves all the same.
WriteDone ==
    /\ pc = "streaming"
    /\ Writing(batch) # {}
    /\ LET i == WriterHead(batch) IN
         /\ written' = IF disconnected THEN written ELSE Append(written, batch[i].s)
         /\ batch' = [batch EXCEPT ![i].st = "sleep"]
    /\ UNCHANGED <<pc, req, nreq, calls, result, upstream, delivered, closed, disconnected>>
    /\ UNCHANGED respVars
    /\ UNCHANGED tplVars
    /\ UNCHANGED cliVars

\* await stream.sleep(20) resolves: the task of one character is finished.
SleepDone ==
    /\ pc = "streaming"
    /\ \E i \in Sleeping(batch) : batch' = [batch EXCEPT ![i].st = "done"]
    /\ UNCHANGED <<pc, req, nreq, calls, result, upstream, delivered, written, closed, disconnected>>
    /\ UNCHANGED respVars
    /\ UNCHANGED tplVars
    /\ UNCHANGED cliVars

\* The client disconnects while the response is streaming.  The callback
\* registers no abort handler and never tests stream.aborted.
Disconnect ==
    /\ pc = "streaming"
    /\ ~disconnected
    /\ disconnected' = TRUE
    /\ UNCHANGED <<pc, req, nreq, calls, result, upstream, delivered, batch, written, closed>>
    /\ UNCHANGED respVars
    /\ UNCHANGED tplVars
    /\ UNCHANGED cliVars

\* The upstream stream has ended: stream.close() at the end of the callback.
StreamClose ==
    /\ pc = "streaming"
    /\ Settled(batch)
    /\ upstream = <<>>
    /\ closed' = closed + 1
    /\ pc' = "stream_finally"
    /\ UNCHANGED <<req, nreq, calls, result, upstream, delivered, batch, written, disconnected>>
    /\ UNCHANGED respVars
    /\ UNCHANGED tplVars
    /\ UNCHANGED cliVars

\* The callback returns.  (The streaming helper closes the stream again at
\* this point, which has no effect on a stream that is closed already.)
StreamFinally ==
    /\ pc = "stream_finally"
    /\ UNCHANGED closed
    /\ pc' = "done"
    /\ UNCHANGED <<req, nreq, calls, result, upstream, delivered, batch, written, disconnected>>
    /\ UNCHANGED respVars
    /\ UNCHANGED tplVars
    /\ UNCHANGED cliVars

\* ------------------------------------------------------ the CLI scripts
\* scripts/ask.js, scripts/explain.js, scripts/sound.js

ConfVars == {"AUTH_USERNAME", "AUTH_PASSWORD", "BASE_URL"}

\* An environment variable: not set, set to '' or set to a value.
EnvValues == {[set |-> FALSE, value |-> ""], [set |-> TRUE, value |-> ""],
              [set |-> TRUE, value |-> "env"]}

\* A variable's line in .dev.vars: none, KEY=file, KEY="file" or KEY=
FileLines == {"none", "plain", "quoted", "empty"}

NoFile == [readable |-> FALSE, lines |-> [v \in ConfVars |-> "none"]]

NoOpts == [provider |-> "", type |-> "", voice |-> "", model |-> "", prompt |-> <<>>]
NoConf == [v \in ConfVars |-> ""]

CliOff ==
    /\ cliScript = "none"
    /\ cliArgs = <<>>
    /\ cliEnv = [v \in ConfVars |-> [set |-> FALSE, value |-> ""]]
    /\ cliFile = NoFile
    /\ cliPc = "off"
    /\ cliConf = NoConf
    /\ cliOpts = NoOpts
    /\ cliStderr = <<>>
    /\ cliExit = -1
    /\ cliRequests = <<>>
    /\ cliDir = FALSE
    /\ cliOutcome = "none"

\* loadDevVars: split each line at '=', keep the entries whose key and value
\* are both non-empty, trim the value and remove its double quotes; a file
\* that cannot be read gives {}.
loadDevVars(file) ==
    [v \in ConfVars |->
        IF file.readable /\ file.lines[v] \in {"plain", "quoted"}
        THEN [has |-> TRUE, value |-> "file"]
        ELSE [has |-> FALSE, value |-> ""]]

\* a resolution that looks at the file first
Resolve_fileFirst(e, f, d) ==
    IF f.has /\ f.value # "" THEN f.value
    ELSE IF e.set /\ e.value # "" THEN e.value
    ELSE d

\* process.env.X || devVars.X || 'default'
Resolve(e, f, d) ==
    IF e.set /\ e.value # "" THEN e.value
    ELSE IF f.has /\ f.value # "" THEN f.value
    ELSE d

Defaults ==
    [v \in ConfVars |-> IF v = "AUTH_USERNAME" THEN "USERNAME"
                        ELSE IF v = "AUTH_PASSWORD" THEN "PASSWORD"
                        ELSE "localhost:3000"]

\* const devVars = loadDevVars(); const USERNAME = ...; PASSWORD; hostname
CliLoadConfig ==
    /\ cliPc = "start"
    /\ LET devVars == loadDevVars(cliFile) IN
         cliConf' = [v \in ConfVars |-> Resolve(cliEnv[v], devVars[v], Defaults[v])]
    /\ cliStderr' = IF cliFile.readable THEN cliStderr ELSE Append(cliStderr, "warning")
    /\ cliPc' = "loaded"
    /\ UNCHANGED <<cliScript, cliArgs, cliEnv, cliFile, cliOpts, cliExit,
                   cliRequests, cliDir, cliOutcome>>
    /\ UNCHANGED serverVars

\* command-line words: flags, a word, the empty string
Tokens == {"--cf", "--open", "--vocab", "--grammar", "--voice", "--model", "--foo", "w", ""}

\* s.startsWith('--')
IsFlag(t) == t \in {"--cf", "--open", "--vocab", "--grammar", "--voice", "--model", "--foo"}

\* args.join(' '): the words with a blank between them; '' adds nothing
RECURSIVE Join(_)
Join(args) ==
    IF args = <<>> THEN <<>>
    ELSE (IF Head(args) = "" THEN <<>> ELSE <<Head(args)>>)
         \o (IF Len(args) > 1 THEN <<" ">> ELSE <<>>)
         \o Join(Tail(args))

\* a default of 'open'
AskProvider_open(args) ==
    IF args # <<>> /\ Head(args) = "--cf" THEN "cf" ELSE "open"

\* ask.js: let provider = 'cf'; --cf / --open as the first argument sets it
AskProvider(args) ==
    IF args # <<>> /\ Head(args) \in {"--cf", "--open"}
    THEN (IF Head(args) = "--cf" THEN "cf" ELSE "open")
    ELSE "cf"

AskParse(args) ==
    LET flagged == args # <<>> /\ Head(args) \in {"--cf", "--open"}
        promptArgs == IF flagged THEN Tail(args) ELSE args
    IN [ok |-> TRUE,
        opts |-> [NoOpts EXCEPT !.provider = AskProvider(args), !.prompt = Join(promptArgs)]]

\* explain.js: let type = 'vocabulary'; --vocab / --grammar as first argument
ExplainParse(args) ==
    LET flagged == args # <<>> /\ Head(args) \in {"--vocab", "--grammar"}
        promptArgs == IF flagged THEN Tail(args) ELSE args
        type == IF flagged /\ Head(args) = "--grammar" THEN "grammar" ELSE "vocabulary"
    IN [ok |-> TRUE,
        opts |-> [NoOpts EXCEPT !.type = type, !.prompt = Join(promptArgs)]]

\* sound.js: while (args.length > 0 && args[0].startsWith('--')) { ... }
RECURSIVE SoundLoop(_, _, _)
SoundLoop(args, voice, model) ==
    IF args # <<>> /\ IsFlag(Head(args))
    THEN LET flag == Head(args)
             rest == Tail(args)
         IN IF flag = "--voice" /\ Len(rest) > 0
            THEN SoundLoop(Tail(rest), Head(rest), model)
            ELSE IF flag = "--model" /\ Len(rest) > 0
            THEN SoundLoop(Tail(rest), voice, Head(rest))
            ELSE [ok |-> FALSE, opts |-> NoOpts]
    ELSE [ok |-> TRUE,
          opts |-> [NoOpts EXCEPT !.voice = voice, !.model = model, !.prompt = Join(args)]]

SoundParse(args) == SoundLoop(args, "alloy", "tts-1")

Parse(script, args) ==
    IF script = "ask" THEN AskParse(args)
    ELSE IF script = "explain" THEN ExplainParse(args)
    ELSE SoundParse(args)

\* Argument parsing up to the `if (!prompt)` test: sound.js exits on a flag
\* it does not accept, every script exits with its usage message when the
\* prompt is empty.
CliParse ==
    /\ cliPc = "loaded"
    /\ LET parsed == Parse(cliScript, cliArgs) IN
         IF ~parsed.ok
         THEN /\ cliStderr' = Append(cliStderr, "unknown flag")
              /\ cliExit' = 1
              /\ cliPc' = "exited"
              /\ UNCHANGED cliOpts
         ELSE IF parsed.opts.prompt = <<>>
         THEN /\ cliStderr' = Append(cliStderr, "usage")
              /\ cliExit' = 1
              /\ cliPc' = "exited"
              /\ UNCHANGED cliOpts
         ELSE /\ cliOpts' = parsed.opts
              /\ cliPc' = "ready"
              /\ UNCHANGED <<cliStderr, cliExit>>
    /\ UNCHANGED <<cliScript, cliArgs, cliEnv, cliFile, cliConf, cliRequests, cliDir, cliOutcome>>
    /\ UNCHANGED serverVars

CliPath(script, opts) ==
    IF script = "ask" THEN (IF opts.provider = "cf" THEN "/ask/cf" ELSE "/ask/open")
    ELSE IF script = "explain" THEN "/explain/open"
    ELSE "/sound/open"

\* https.request({hostname, path, method: 'GET', auth}) ... req.end();
\* sound.js creates the output directory first.
CliSend ==
    /\ cliPc = "ready"
    /\ cliDir' = (cliScript = "sound")
    /\ cliRequests' = Append(cliRequests,
          [method |-> "GET", path |-> CliPath(cliScript, cliOpts),
           hostname |-> cliConf["BASE_URL"],
           username |-> cliConf["AUTH_USERNAME"], password |-> cliConf["AUTH_PASSWORD"],
           query |-> cliOpts])
    /\ cliPc' = "sent"
    /\ UNCHANGED <<cliScript, cliArgs, cliEnv, cliFile, cliConf, cliOpts, cliStderr,
                   cliExit, cliOutcome>>
    /\ UNCHANGED serverVars

\* The response arrives and is printed or saved; sound.js reports a status
\* other than 200 on standard error.
CliResponse ==
    /\ cliPc = "sent"
    /\ \E st \in {200, 401, 500} :
         /\ cliOutcome' = IF st = 200 THEN "ok" ELSE "status"
         /\ cliStderr' = IF cliScript = "sound" /\ st # 200
                         THEN Append(cliStderr, "status") ELSE cliStderr
    /\ cliExit' = 0
    /\ cliPc' = "finished"
    /\ UNCHANGED <<cliScript, cliArgs, cliEnv, cliFile, cliConf, cliOpts, cliRequests, cliDir>>
    /\ UNCHANGED serverVars

\* req.on('error', ...): the connection fails; the error is printed.
CliError ==
    /\ cliPc = "sent"
    /\ cliOutcome' = "error"
    /\ cliStderr' = Append(cliStderr, "error")
    /\ cliExit' = 0
    /\ cliPc' = "finished"
    /\ UNCHANGED <<cliScript, cliArgs, cliEnv, cliFile, cliConf, cliOpts, cliRequests, cliDir>>
    /\ UNCHANGED serverVars

\* ------------------------------------------------------- specification
Init ==
    /\ pc = "idle"
    /\ req = NoRequest
    /\ nreq = 0
    /\ status = 0
    /\ headers = {}
    /\ body = NoBody
    /\ calls = <<>>
    /\ result = NoResult
    /\ upstream = <<>>
    /\ delivered = <<>>
    /\ batch = <<>>
    /\ written = <<>>
    /\ closed = 0
    /\ disconnected = FALSE
    /\ tplIn = <<>>
    /\ tplOut = <<>>
    /\ CliOff

Next ==
    \/ Receive
    \/ Discard
    \/ Cors
    \/ BasicAuth
    \/ NotFound
    \/ AskOpen
    \/ AskOpenReturn
    \/ AskCf
    \/ AskCfReturn
    \/ SoundOpen
    \/ SoundOpenReturn
    \/ ExplainOpen
    \/ ExplainOpenReturn
    \/ StreamNext
    \/ WriteDone
    \/ SleepDone
    \/ Disconnect
    \/ StreamClose
    \/ StreamFinally

Spec == Init /\ [][Next]_vars

\* The streaming callback keeps running: the provider delivers the next
\* message or the end of the stream, a client that is connected reads the
\* chunks (and a write to a client that is gone fails at once), timers fire.
StreamStep == StreamNext \/ WriteDone \/ SleepDone \/ StreamClose \/ StreamFinally

\* One /explain/open request that has passed cors and basicAuth, with the
\* query parameters scripts/explain.js sends (prompt and type).
InitLive ==
    /\ pc = "route"
    /\ req \in {r \in Requests :
                  /\ Matches(r, "/explain/open")
                  /\ r.voice = Absent
                  /\ r.model = Absent
                  /\ auth(r).found
                  /\ verifyUser(auth(r).username, auth(r).password)}
    /\ nreq = 1
    /\ status = 0
    /\ headers = {}
    /\ body = NoBody
    /\ calls = <<>>
    /\ result = NoResult
    /\ upstream = <<>>
    /\ delivered = <<>>
    /\ batch = <<>>
    /\ written = <<>>
    /\ closed = 0
    /\ disconnected = FALSE
    /\ tplIn = <<>>
    /\ tplOut = <<>>
    /\ CliOff

NextLive ==
    \/ ExplainOpen
    \/ ExplainOpenReturn
    \/ StreamNext
    \/ WriteDone
    \/ SleepDone
    \/ Disconnect
    \/ StreamClose
    \/ StreamFinally

SpecLive == InitLive /\ [][NextLive]_vars /\ WF_vars(StreamStep)

\* ------------------------------------ the template builder on its own
\* U+0061, U+4DFF, U+4E00, U+9FAF, U+9FB0 and U+20000 (outside the BMP)
CodePoints == {97, 19967, 19968, 40879, 40880, 131072}

TplNone == <<"none">>

InitPrompt ==
    /\ pc = "idle"
    /\ req = NoRequest
    /\ nreq = 0
    /\ status = 0
    /\ headers = {}
    /\ body = NoBody
    /\ calls = <<>>
    /\ result = NoResult
    /\ upstream = <<>>
    /\ delivered = <<>>
    /\ batch = <<>>
    /\ written = <<>>
    /\ closed = 0
    /\ disconnected = FALSE
    /\ tplIn \in SeqsUpTo(CodePoints, MaxPromptLen)
    /\ tplOut = TplNone
    /\ CliOff

Render ==
    /\ tplOut = TplNone
    /\ tplOut' = generateWordExplanationPrompt(tplIn)
    /\ UNCHANGED <<pc, req, nreq, calls, result, tplIn>>
    /\ UNCHANGED respVars
    /\ UNCHANGED streamVars
    /\ UNCHANGED cliVars

NextPrompt == Render

SpecPrompt == InitPrompt /\ [][NextPrompt]_vars

\* ------------------------------------------------- the CLI on its own
ServerIdle ==
    /\ pc = "idle"
    /\ req = NoRequest
    /\ nreq = 0
    /\ status = 0
    /\ headers = {}
    /\ body = NoBody
    /\ calls = <<>>
    /\ result = NoResult
    /\ upstream = <<>>
    /\ delivered = <<>>
    /\ batch = <<>>
    /\ written = <<>>
    /\ closed = 0
    /\ disconnected = FALSE
    /\ tplIn = <<>>
    /\ tplOut = <<>>

CliStart ==
    /\ cliPc = "start"
    /\ cliConf = NoConf
    /\ cliOpts = NoOpts
    /\ cliStderr = <<>>
    /\ cliExit = -1
    /\ cliRequests = <<>>
    /\ cliDir = FALSE
    /\ cliOutcome = "none"

\* a run of one script with some command line; nothing configured, or
\* everything configured in the environment
InitCli ==
    /\ ServerIdle
    /\ CliStart
    /\ cliScript \in {"ask", "explain", "sound"}
    /\ cliArgs \in SeqsUpTo(Tokens, MaxArgs)
    /\ \/ cliEnv = [v \in ConfVars |-> [set |-> FALSE, value |-> ""]] /\ cliFile = NoFile
       \/ cliEnv = [v \in ConfVars |-> [set |-> TRUE, value |-> "env"]]
            /\ cliFile = [readable |-> TRUE, lines |-> [v \in ConfVars |-> "plain"]]

NextCli ==
    \/ CliLoadConfig
    \/ CliParse
    \/ CliSend
    \/ CliResponse
    \/ CliError

SpecCli == InitCli /\ [][NextCli]_vars

\* the start of a script under every environment and .dev.vars file
InitCreds ==
    /\ ServerIdle
    /\ CliStart
    /\ cliScript \in {"ask", "explain", "sound"}
    /\ cliArgs = <<"w">>
    /\ cliEnv \in [ConfVars -> EnvValues]
    /\ cliFile \in {NoFile} \cup [readable : {TRUE}, lines : [ConfVars -> FileLines]]

NextCreds == CliLoadConfig

SpecCreds == InitCreds /\ [][NextCreds]_vars

\* ================================================================ claims
CredsValid(r) ==
    /\ r.auth.kind = "basic"
    /\ r.auth.username = AUTH_USERNAME
    /\ r.auth.password = AUTH_PASSWORD

Routed(r) == r.method \in {"GET", "HEAD"} /\ r.path \in Routes

\* C1: a provider call is made for a request only if that request carries
\* the configured username and password, whichever request of the sequence
\* it is and whatever the earlier requests were.
C1_ProviderOnlyAfterAuth ==
    (calls # <<>> \/ pc \in {"route", "await_ask_open", "await_ask_cf", "await_sound",
                             "await_explain", "streaming", "stream_finally"})
        => CredsValid(req)

\* a later request reaches a provider, with valid credentials
C1_Witness ==
    nreq >= 2 /\ Len(calls) = 1 /\ status = 200 /\ CredsValid(req)

\* C2 (as stated): every request without valid credentials, whatever its
\* method, is answered 401 with a WWW-Authenticate header.
C2_Original ==
    (pc = "done" /\ ~CredsValid(req))
        => (status = 401 /\ "WWW-Authenticate" \in headers)

\* C2 (amended): every request other than an OPTIONS preflight that lacks
\* valid credentials is answered 401 with a WWW-Authenticate header, and the
\* response does not depend on which of username and password is wrong; an
\* OPTIONS request is answered 204 by the CORS middleware before any
\* credential check.
C2_Unauthorized ==
    /\ (pc = "done" /\ ~CredsValid(req) /\ req.method # "OPTIONS")
          => /\ status = 401
             /\ headers = {"WWW-Authenticate"}
             /\ body.shape = (IF req.method = "HEAD" THEN "none" ELSE "text")
             /\ (body.shape = "text" => body.items = <<"Unauthorized">>)
    /\ (pc = "done" /\ req.method = "OPTIONS") => status = 204

\* a wrong password with the right username has been answered
C2_Witness ==
    /\ pc = "done" /\ status = 401
    /\ req.auth.kind = "basic"
    /\ req.auth.username = AUTH_USERNAME /\ req.auth.password # AUTH_PASSWORD

\* C3: an authenticated request routed to /ask/open, /ask/cf, /explain/open
\* or /sound/open whose prompt is absent or empty is answered 400, and no
\* provider call is made for a request without a prompt.
C3_MissingPrompt ==
    /\ (~req.prompt.present \/ req.prompt.value = <<>>) => calls = <<>>
    /\ (pc = "done" /\ CredsValid(req) /\ Routed(req)
         /\ (~req.prompt.present \/ req.prompt.value = <<>>))
          => status = 400

\* /sound/open?prompt= has been answered
C3_Witness ==
    /\ pc = "done" /\ status = 400 /\ req.path = "/sound/open"
    /\ req.prompt.present /\ req.prompt.value = <<>>

\* the texts of all the deltas of a stream, in delivery order
AllText(items) == Concat([i \in 1..Len(items) |-> DeltaText(items[i])])

IsPrefix(a, b) == Len(a) <= Len(b) /\ a = SubSeq(b, 1, Len(a))

\* C4: in /explain/open the chunks written to the client, concatenated in
\* write order, are at every moment a prefix of the concatenated upstream
\* delta texts, and are exactly that text once the stream is closed; a
\* delta without content contributes nothing.  (Nothing can be written to a
\* client that has disconnected: the equalities are those of a client that
\* stays connected, the prefix property holds in every case.)
C4_OrderPreserved ==
    result.kind = "stream"
        => /\ IsPrefix(Concat(written), AllText(result.items))
           /\ ~disconnected =>
                Concat(written) \o Concat([k \in 1..Cardinality(Writing(batch)) |->
                    batch[Len(batch) - Cardinality(Writing(batch)) + k].s]) = delivered
           /\ (closed > 0 /\ ~disconnected) => Concat(written) = AllText(result.items)

\* two deltas, at least three characters, the first two different, all written
C4_Witness ==
    /\ closed > 0 /\ ~disconnected /\ Len(result.items) = 2
    /\ Len(written) >= 3 /\ written[1] # written[2]

\* C5 (as stated): emission is serialized - at most one write or pause of
\* the streaming loop is in flight at any time.
C5_Serialized ==
    pc = "streaming" => Cardinality(Writing(batch) \cup Sleeping(batch)) <= 1

\* the reply of a sentence-generation backend that holds no usable sentences
NoSentences(r) ==
    \/ r.kind \in {"nochoices", "refusal"}
    \/ r.kind \in {"content", "result"}
         /\ (r.items = <<>> \/ \E i \in 1..Len(r.items) : ~(SchemaKeys \subseteq r.items[i].fields))

\* C6 (as stated): on /ask/open and /ask/cf a backend result with zero
\* sentence items, without choices, or that failed to parse is answered 500.
C6_EmptyIs500 ==
    (pc = "done" /\ req.path \in {"/ask/open", "/ask/cf"} /\ NoSentences(result))
        => status = 500

\* C7 (as stated): n >= 1 well-formed sentence objects from the backend are
\* answered 200 with the bare JSON array of these n items, in order, each
\* with jp, en and jp_reading.
C7_BareArray ==
    (pc = "done" /\ req.method = "GET" /\ req.path \in {"/ask/open", "/ask/cf"}
     /\ result.kind \in {"content", "result"} /\ ~NoSentences(result))
        => /\ status = 200
           /\ body.shape = "array"
           /\ Len(body.items) = Len(result.items)
           /\ \A i \in 1..Len(body.items) :
                 /\ body.items[i].id = result.items[i].id
                 /\ SchemaKeys \subseteq body.items[i].fields

\* C7 (amended): on /ask/open, n >= 1 well-formed sentence objects are
\* answered 200 with the bare JSON array of these n items, in order, each
\* with jp, en and jp_reading; on /ask/cf the answer is 200 with the object
\* the binding returned, as it is.
C7_ArrayOrNative ==
    /\ (pc = "done" /\ req.method = "GET" /\ req.path = "/ask/open"
         /\ result.kind = "content" /\ ~NoSentences(result))
          => /\ status = 200
             /\ body.shape = "array"
             /\ Len(body.items) = Len(result.items)
             /\ \A i \in 1..Len(body.items) :
                   /\ body.items[i].id = result.items[i].id
                   /\ body.items[i].fields = {"jp", "en", "jp_reading"}
    /\ (pc = "done" /\ req.method = "GET" /\ req.path = "/ask/cf"
         /\ result.kind = "result")
          => /\ status = 200
             /\ body.shape = "object"
             /\ body.items = result.items

\* /ask/open has answered two well-formed sentences, one with an extra key
C7_Witness ==
    /\ pc = "done" /\ req.method = "GET" /\ req.path = "/ask/open" /\ status = 200
    /\ Len(result.items) = 2 /\ Len(body.items) = 2
    /\ "expl" \in result.items[2].fields

FixedSections == <<"Header", "Usage Examples", "Similar Words Comparison", "Usage Summary">>
KanjiSections == {"Kanji Analysis", "Common Compounds", "Mnemonic"}

IsFixedSection(x) == x \notin KanjiSections
SectionsOf(t) == {t[i] : i \in 1..Len(t)}

\* C8: generateWordExplanationPrompt(p) has the Kanji Analysis section, the
\* Common Compounds section and the Mnemonic line exactly when p has a
\* character in U+4E00..U+9FAF - all three or none - and the other sections
\* are present, in the same order, for every p.
C8_KanjiSections ==
    tplOut # TplNone
        => LET hasKanji == \E i \in 1..Len(tplIn) : tplIn[i] \in 19968..40879 IN
           /\ \A x \in KanjiSections : (x \in SectionsOf(tplOut)) <=> hasKanji
           /\ SelectSeq(tplOut, IsFixedSection) = FixedSections
           /\ Len(tplOut) = Len(FixedSections) + (IF hasKanji THEN 3 ELSE 0)

\* a prompt with U+4E00 and a character outside the BMP has been rendered
C8_Witness ==
    /\ tplOut # TplNone
    /\ \E i \in 1..Len(tplIn) : tplIn[i] = 19968
    /\ \E i \in 1..Len(tplIn) : tplIn[i] = 131072
    /\ "Mnemonic" \in SectionsOf(tplOut)

Backends(cs) == {cs[i].backend : i \in 1..Len(cs)}

\* C9 (as stated): /ask/cf calls only the binding; /ask/open, /explain/open
\* and /sound/open call only the hosted API; an authenticated request to
\* another path or with a non-GET method is answered 404 without a call.
C9_Original ==
    /\ req.path = "/ask/cf" => Backends(calls) \subseteq {"binding"}
    /\ req.path \in {"/ask/open", "/explain/open", "/sound/open"}
          => Backends(calls) \subseteq {"hosted"}
    /\ (CredsValid(req) /\ (req.path \notin Routes \/ req.method # "GET"))
          => /\ calls = <<>>
             /\ pc = "done" => status = 404

\* C9 (amended): the backend is selected by path alone, as stated; an
\* authenticated request is answered 404 without a backend call when its
\* method is not OPTIONS and either its path is none of the four routes or
\* its method is neither GET nor HEAD; an OPTIONS request is answered 204
\* without a backend call; a HEAD request is routed as a GET request.
C9_BackendByPath ==
    /\ req.path = "/ask/cf" => Backends(calls) \subseteq {"binding"}
    /\ req.path \in {"/ask/open", "/explain/open", "/sound/open"}
          => Backends(calls) \subseteq {"hosted"}
    /\ (CredsValid(req) /\ req.method # "OPTIONS"
         /\ (req.path \notin Routes \/ req.method \notin {"GET", "HEAD"}))
          => /\ calls = <<>>
             /\ pc = "done" => status = 404
    /\ req.method = "OPTIONS"
          => /\ calls = <<>>
             /\ pc = "done" => status = 204

\* an authenticated POST to /ask/cf with a prompt has been answered 404
C9_Witness ==
    /\ pc = "done" /\ status = 404 /\ CredsValid(req)
    /\ req.method = "POST" /\ req.path = "/ask/cf"
    /\ req.prompt.present /\ req.prompt.value # <<>>

\* C10 (as stated): at most one provider call is made for a request, and a
\* backend call that throws or returns an unusable result ends the request
\* with status 500.
C10_FailureTerminal ==
    /\ Len(calls) <= 1
    /\ (pc = "done" /\ (result.kind = "error" \/ NoSentences(result))) => status = 500

\* C11 (as stated): the voice and the model of the speech-synthesis call are
\* the request's voice and model parameters whenever these are present, and
\* the defaults only for a parameter that is absent.
C11_ParamsUsed ==
    \A i \in 1..Len(calls) :
        calls[i].op = "audio.speech.create"
            => /\ req.model.present => calls[i].model = req.model.value
               /\ req.voice.present => calls[i].voice = req.voice.value
               /\ ~req.voice.present => calls[i].voice = <<"nova">>

\* C12 (as stated): once the client has disconnected, the streaming loop
\* consumes no further upstream delta and starts no further write or pause.
C12_Abandoned ==
    [][(disconnected /\ pc = "streaming")
         => /\ upstream' = upstream
            /\ Writing(batch') \subseteq Writing(batch)
            /\ Sleeping(batch') \subseteq Sleeping(batch)]_vars

RecognisedFlags(script) ==
    IF script = "ask" THEN {"--cf", "--open"}
    ELSE IF script = "explain" THEN {"--vocab", "--grammar"}
    ELSE {"--voice", "--model"}

\* a command line with no prompt: nothing at all, or one accepted flag
NoPromptArgs(script, args) ==
    \/ args = <<>>
    \/ Len(args) = 1 /\ args[1] \in RecognisedFlags(script)

CliParsed == cliPc \in {"exited", "ready", "sent", "finished"}

\* C13: a script run without a prompt (no arguments, or only a recognised
\* flag) prints its usage message to standard error, exits with a non-zero
\* status, sends no request and creates no output directory.
C13_UsageOnEmptyPrompt ==
    (CliParsed /\ NoPromptArgs(cliScript, cliArgs))
        => /\ cliPc = "exited"
           /\ cliExit > 0
           /\ \E i \in 1..Len(cliStderr) : cliStderr[i] = "usage"
           /\ cliRequests = <<>>
           /\ ~cliDir

\* where the claim sends each script's request
ExpectedPath(script, args) ==
    IF script = "ask"
    THEN (IF args # <<>> /\ args[1] = "--open" THEN "/ask/open" ELSE "/ask/cf")
    ELSE IF script = "explain" THEN "/explain/open"
    ELSE "/sound/open"

\* C14: a run that passes argument validation issues exactly one GET, to
\* /ask/<provider> (cf unless the first argument is --open), /explain/open
\* or /sound/open, and never a second one, however the request ends; a run
\* that has not passed validation has issued none.
C14_OneRequest ==
    /\ [](/\ cliPc \in {"start", "loaded", "ready", "exited"} => cliRequests = <<>>
          /\ cliPc \in {"sent", "finished"} =>
               /\ Len(cliRequests) = 1
               /\ cliRequests[1].method = "GET"
               /\ cliRequests[1].path = ExpectedPath(cliScript, cliArgs))
    /\ [][cliRequests # <<>> => cliRequests' = cliRequests]_vars

C14_Witness ==
    /\ cliPc = "finished"
    /\ cliOutcome = "error"
    /\ cliScript = "ask"
    /\ cliArgs # <<>>
    /\ cliArgs[1] = "--open"
    /\ Len(cliRequests) = 1

\* C15 as stated: a variable set in the environment, the empty string
\* included, keeps the environment's value.
C15_Original ==
    cliPc = "loaded" =>
        \A v \in ConfVars : cliEnv[v].set => cliConf[v] = cliEnv[v].value

\* C15: a variable set in the environment to a non-empty value keeps that
\* value whatever the file holds; the file's value is used only when the
\* environment's is unset or empty, the default only when both are missing.
C15_EnvWins ==
    cliPc = "loaded" =>
        \A v \in ConfVars :
            LET e == cliEnv[v]
                inEnv == e.set /\ e.value # ""
                inFile == cliFile.readable /\ cliFile.lines[v] \in {"plain", "quoted"}
            IN /\ inEnv => cliConf[v] = e.value
               /\ (~inEnv /\ inFile) => cliConf[v] = "file"
               /\ (~inEnv /\ ~inFile) => cliConf[v] = Defaults[v]

C15_Witness ==
    /\ cliPc = "loaded"
    /\ \E v \in ConfVars :
         /\ cliEnv[v].set
         /\ cliEnv[v].value = "env"
         /\ cliFile.readable
         /\ cliFile.lines[v] = "quoted"
         /\ cliConf[v] = "env"

====
